---- MODULE Spec2Model ----
(***************************************************************************)
(* GROMACS export of an OpenFF System                                      *)
(* (src/openff/system/interop/internal/gromacs.py): to_top and to_gro.     *)
(*                                                                         *)
(* One behaviour is one call of to_top or of to_gro on one System.  The    *)
(* System is read-only during the export.  Its topology and its nonbonded  *)
(* handlers, which several writers read, are fixed in Init; a valence      *)
(* handler and the box are each read by exactly one writer, and are bound  *)
(* (and recorded in `handlers` / `box`) by the action of that writer.      *)
(*                                                                         *)
(* A file is a sequence of lines, a line a record of its fields.  Atom     *)
(* indices are 0-based as in the code; TLA+ sequences are 1-based, so the  *)
(* atom of index i is atoms[i + 1].  A type label f"{symbol}{count}" is    *)
(* the pair <<symbol, count>>.  Parameters are stored in the units the     *)
(* file uses, except the box, whose unit is part of the input.  The three  *)
(* coordinate fields of a .gro atom line and blank separator lines are not *)
(* represented.                                                            *)
(***************************************************************************)
EXTENDS Integers, Sequences, FiniteSets, TLC

VARIABLES
    sys,        \* the System: topology and nonbonded handlers
    handlers,   \* valence handlers, each bound when its writer reads it
    box,        \* openff_sys.box, bound when to_gro reads it
    pc,         \* position in to_top / to_gro
    stream,     \* "unopened" | "open" | "closed"
    out,        \* lines written to the stream = content of the file at path
    typemap,    \* local `typemap` of to_top / to_gro
    atom,       \* loop variable `atom` of to_gro's atom loop
    err         \* exception propagating out of the export, or "none"

vars == <<sys, handlers, box, pc, stream, out, typemap, atom, err>>

----------------------------------------------------------------------------
(* Bounds of the model *)

MaxAtoms == 4
MaxVaried == 3
MaxDup == 2
MaxIndex == 100001

(* Program constant: the modulus of the 5-digit serial fields *)
SerialModulus == 100000

----------------------------------------------------------------------------
(* Inputs: topology *)

Elements == {"C", "H"}

AtomicNumber(sym) == IF sym = "C" THEN 6 ELSE 1
Mass(sym) == IF sym = "C" THEN 12 ELSE 1

ResidueIndex(idx) == idx \div 2

\* mdtop.bonds as (atom1.index, atom2.index); every second bond is stored
\* with the larger index first.
TopBonds(s) ==
    LET n == Len(s.atoms) IN
    IF s.shape = "chain"
    THEN [i \in 1..(n - 1) |-> IF i % 2 = 0 THEN <<i, i - 1>> ELSE <<i - 1, i>>]
    ELSE <<<<0, 1>>, <<2, 1>>, <<1, 3>>>>

\* _iterate_angles(mdtop)
TopAngles(s) ==
    LET n == Len(s.atoms) IN
    IF s.shape = "chain"
    THEN [i \in 1..(n - 2) |-> <<i - 1, i, i + 1>>]
    ELSE <<<<0, 1, 2>>, <<0, 1, 3>>, <<2, 1, 3>>>>

\* _iterate_propers(mdtop)
TopPropers(s) ==
    LET n == Len(s.atoms) IN
    IF s.shape = "chain"
    THEN [i \in 1..(n - 3) |-> <<i - 1, i, i + 1, i + 2>>]
    ELSE << >>

\* _iterate_impropers(mdtop)
TopImpropers(s) ==
    IF s.shape = "chain" THEN << >> ELSE <<<<0, 1, 2, 3>>, <<2, 1, 3, 0>>>>

Shapes(n) == IF n = 4 THEN {"chain", "star"} ELSE {"chain"}

\* Element sequences: the first MaxVaried atoms are of any element, the
\* atoms after them are hydrogens.
AtomSeqs ==
    { a \in UNION {[1..n -> Elements] : n \in 1..MaxAtoms} :
        \A i \in DOMAIN a : i > MaxVaried => a[i] = "H" }

Systems ==
    { [vdw |-> v, buck |-> b, elec |-> e, atoms |-> a, shape |-> sh] :
        v \in BOOLEAN, b \in BOOLEAN, e \in BOOLEAN,
        a \in AtomSeqs, sh \in {"chain", "star"} }

WellFormed(s) == s.shape \in Shapes(Len(s.atoms))

----------------------------------------------------------------------------
(* Inputs: handlers *)

ValenceNames == {"Bonds", "Angles", "ProperTorsions", "RBTorsions", "ImproperTorsions"}

Unbound == << >>

Absent == [present |-> FALSE, slot_map |-> << >>, idivf |-> 0]

SortPair(p) == IF p[1] <= p[2] THEN p ELSE <<p[2], p[1]>>

\* The keys the parameterization registers for a handler: the interactions
\* of the topology in canonical form (bonds sorted ascending).
KeysOf(name, s) ==
    CASE name = "Bonds" -> [i \in DOMAIN TopBonds(s) |-> SortPair(TopBonds(s)[i])]
      [] name = "Angles" -> TopAngles(s)
      [] name = "ImproperTorsions" -> TopImpropers(s)
      [] OTHER -> TopPropers(s)

\* How many slot-map entries carry each interaction's atom indices: one
\* for each, except that the first or the last interaction may have none, or
\* the last one several (entries that differ in `mult` only).
Covers(k) ==
    { c \in [1..k -> 0..MaxDup] :
        /\ \A i \in 2..(k - 1) : c[i] = 1
        /\ k > 1 => (c[1] = 1 /\ c[k] \in 0..MaxDup) \/ (c[1] = 0 /\ c[k] = 1) }

RECURSIVE SlotMapOf(_, _, _)
SlotMapOf(keys, c, i) ==
    IF i > Len(keys) THEN << >>
    ELSE [m \in 1..c[i] |-> [atom_indices |-> keys[i], mult |-> m, pot |-> <<i, m>>]]
         \o SlotMapOf(keys, c, i + 1)

IdivfChoices(name) ==
    IF name \in {"ProperTorsions", "ImproperTorsions"} THEN {0, 2} ELSE {0}

HandlerChoices(name, s) ==
    LET keys == KeysOf(name, s) IN
    {Absent} \cup
    { [present |-> TRUE, slot_map |-> SlotMapOf(keys, c, 1), idivf |-> d] :
        c \in Covers(Len(keys)),
        d \in IF Len(keys) = 0 THEN {0} ELSE IdivfChoices(name) }

PotNum(pot) == 4 * pot[1] + pot[2]

\* handler.potentials[pot_key].parameters: the set of parameter names is
\* DOMAIN of the result; idivf 0 of the handler means the parameter is absent.
Parameters(name, h, pot) ==
    CASE name = "Bonds" -> [k |-> 100 + PotNum(pot), length |-> PotNum(pot)]
      [] name = "Angles" -> [k |-> 100 + PotNum(pot), angle |-> 90 + PotNum(pot)]
      [] name = "RBTorsions" ->
            [C0 |-> PotNum(pot), C1 |-> 1, C2 |-> 2, C3 |-> 3, C4 |-> 4, C5 |-> 5]
      [] OTHER ->
            IF h.idivf = 0
            THEN [k |-> 12 * PotNum(pot), periodicity |-> pot[2], phase |-> 180]
            ELSE [k |-> 12 * PotNum(pot), periodicity |-> pot[2], phase |-> 180,
                  idivf |-> h.idivf]

----------------------------------------------------------------------------
(* Lines *)

Line(sec, kind, idx, func, label, vals) ==
    [sec |-> sec, kind |-> kind, idx |-> idx, func |-> func,
     label |-> label, vals |-> vals]

Header(sec) == Line(sec, "header", << >>, 0, << >>, << >>)
Comment(sec) == Line(sec, "comment", << >>, 0, << >>, << >>)

Plus1(t) == [i \in DOMAIN t |-> t[i] + 1]

Result(lines, e) == [lines |-> lines, err |-> e]

----------------------------------------------------------------------------
(* _build_typemap *)

\* Variant: the counter of an element starts at 0.
CountAfterFromZero(elements, sym) ==
    IF sym \notin DOMAIN elements THEN 0 ELSE elements[sym] + 1

\* elements[element_symbol] after lines 152-155
CountAfter(elements, sym) ==
    IF sym \notin DOMAIN elements THEN 1 ELSE elements[sym] + 1

RECURSIVE TypemapLoop(_, _, _, _)
TypemapLoop(atoms, i, elements, tm) ==
    IF i > Len(atoms) THEN tm
    ELSE LET sym == atoms[i]
             n == CountAfter(elements, sym)
             el2 == [s \in DOMAIN elements \cup {sym} |->
                        IF s = sym THEN n ELSE elements[s]]
         IN TypemapLoop(atoms, i + 1, el2, tm @@ ((i - 1) :> <<sym, n>>))

EmptyMap == [x \in {} |-> 0]

BuildTypemapOf(s) == TypemapLoop(s.atoms, 1, EmptyMap, EmptyMap)

----------------------------------------------------------------------------
(* Section writers of to_top: each yields the lines it writes and the     *)
(* exception it raises ("none" when it returns).                          *)

WriteTopDefaultsOf(s) ==
    LET head == <<Header("defaults"), Comment("defaults")>>
        nbfunc == IF s.vdw THEN 1 ELSE IF s.buck THEN 2 ELSE 0
        gen_pairs == IF s.vdw THEN "yes" ELSE "no"
    IN  IF ~s.vdw /\ ~s.buck THEN Result(head, "UnboundLocalError")
        ELSE IF ~s.elec THEN Result(head, "KeyError")
        ELSE Result(head \o <<Line("defaults", "data", << >>, nbfunc,
                                   <<gen_pairs>>, <<2, 500, 833>>)>>, "none")

AtomtypeLine(s, tm, idx, nparams) ==
    LET sym == s.atoms[idx + 1] IN
    Line("atomtypes", "data", <<AtomicNumber(sym)>>, 0, <<tm[idx]>>,
         <<Mass(sym), 0>> \o [j \in 1..nparams |-> 10 * (idx + 1) + j])

WriteAtomtypesLJ(s, tm) ==
    <<Header("atomtypes"), Comment("atomtypes")>>
    \o [i \in 1..Cardinality(DOMAIN tm) |-> AtomtypeLine(s, tm, i - 1, 2)]

WriteAtomtypesBuck(s, tm) ==
    <<Header("atomtypes"), Comment("atomtypes")>>
    \o [i \in 1..Cardinality(DOMAIN tm) |-> AtomtypeLine(s, tm, i - 1, 3)]

WriteAtomtypesOf(s, tm) ==
    IF s.vdw
    THEN IF s.buck THEN Result(<< >>, "UnsupportedExportError")
         ELSE Result(WriteAtomtypesLJ(s, tm), "none")
    ELSE IF s.buck THEN Result(WriteAtomtypesBuck(s, tm), "none")
         ELSE Result(<< >>, "UnsupportedExportError")

WriteMoleculetypeOf ==
    <<Header("moleculetype"), Comment("moleculetype"),
      Line("moleculetype", "data", << >>, 0, <<"MOL">>, <<3>>)>>

Charge(idx) == idx - 1

\* Variant: the pairs section is written before the atoms section.
WriteAtomsPairsFirst(s, tm) ==
    <<Header("pairs"), Comment("pairs")>>
    \o [i \in 1..Len(TopPropers(s)) |->
          Line("pairs", "data",
               <<TopPropers(s)[i][1] + 1, TopPropers(s)[i][4] + 1>>, 1, << >>, << >>)]
    \o <<Header("atoms"), Comment("atoms")>>
    \o [i \in 1..Len(s.atoms) |->
          Line("atoms", "data", <<i, ResidueIndex(i - 1) + 1, i>>, 0,
               <<tm[i - 1], tm[i - 1]>>, <<Charge(i - 1), Mass(s.atoms[i])>>)]

WriteAtomsOf(s, tm) ==
    <<Header("atoms"), Comment("atoms")>>
    \o [i \in 1..Len(s.atoms) |->
          Line("atoms", "data", <<i, ResidueIndex(i - 1) + 1, i>>, 0,
               <<tm[i - 1], tm[i - 1]>>, <<Charge(i - 1), Mass(s.atoms[i])>>)]
    \o <<Header("pairs"), Comment("pairs")>>
    \o [i \in 1..Len(TopPropers(s)) |->
          Line("pairs", "data",
               <<TopPropers(s)[i][1] + 1, TopPropers(s)[i][4] + 1>>, 1, << >>, << >>)]

\* for top_key in handler.slot_map: if top_key.atom_indices == indices:
\*     pot_key = handler.slot_map[top_key]
\* Variant: the search stops at the first matching entry.
RECURSIVE LookupFirst(_, _, _, _)
LookupFirst(slot_map, indices, i, pot_key) ==
    IF i > Len(slot_map) THEN pot_key
    ELSE IF slot_map[i].atom_indices = indices THEN slot_map[i].pot
    ELSE LookupFirst(slot_map, indices, i + 1, pot_key)

RECURSIVE Lookup(_, _, _, _)
Lookup(slot_map, indices, i, pot_key) ==
    IF i > Len(slot_map) THEN pot_key
    ELSE Lookup(slot_map, indices, i + 1,
                IF slot_map[i].atom_indices = indices THEN slot_map[i].pot
                ELSE pot_key)

BondLine(h, indices, pot_key) ==
    LET params == Parameters("Bonds", h, pot_key) IN
    Line("bonds", "data", Plus1(indices), 1, << >>, <<params.length, params.k>>)

\* pot_key at the top of the next iteration of _write_bonds: `del pot_key`
BondsNextPotKey(pot_key) == Unbound

RECURSIVE BondsLoop(_, _, _, _, _)
BondsLoop(h, bonds, i, pot_key, lines) ==
    IF i > Len(bonds) THEN Result(lines, "none")
    ELSE LET indices == SortPair(bonds[i])
             pk == Lookup(h.slot_map, indices, 1, pot_key)
         IN IF pk = Unbound THEN Result(lines, "UnboundLocalError")
            ELSE BondsLoop(h, bonds, i + 1, BondsNextPotKey(pk),
                           Append(lines, BondLine(h, indices, pk)))

WriteBondsOf(s, h) ==
    IF ~h.present THEN Result(<< >>, "none")
    ELSE BondsLoop(h, TopBonds(s), 1, Unbound,
                   <<Header("bonds"), Comment("bonds")>>)

AngleLine(h, indices, pot_key) ==
    LET params == Parameters("Angles", h, pot_key) IN
    Line("angles", "data", Plus1(indices), 1, << >>, <<params.angle, params.k>>)

\* pot_key at the top of the next iteration of _write_angles: left as it is
AnglesNextPotKey(pot_key) == pot_key

RECURSIVE AnglesLoop(_, _, _, _, _)
AnglesLoop(h, angles, i, pot_key, lines) ==
    IF i > Len(angles) THEN Result(lines, "none")
    ELSE LET indices == angles[i]
             pk == Lookup(h.slot_map, indices, 1, pot_key)
         IN IF pk = Unbound THEN Result(lines, "UnboundLocalError")
            ELSE AnglesLoop(h, angles, i + 1, AnglesNextPotKey(pk),
                            Append(lines, AngleLine(h, indices, pk)))

WriteAnglesOf(s, h) ==
    IF ~h.present THEN Result(<< >>, "none")
    ELSE AnglesLoop(h, TopAngles(s), 1, Unbound,
                    <<Header("angles"), Comment("angles")>>)

\* lines 399-420: one function-code-1 line per matching slot-map entry
RECURSIVE ProperEntries(_, _, _, _)
ProperEntries(h, indices, i, lines) ==
    IF i > Len(h.slot_map) THEN lines
    ELSE IF h.slot_map[i].atom_indices = indices
    THEN LET params == Parameters("ProperTorsions", h, h.slot_map[i].pot)
             idivf == IF "idivf" \in DOMAIN params THEN params.idivf ELSE 1
         IN ProperEntries(h, indices, i + 1,
                Append(lines, Line("dihedrals", "data", Plus1(indices), 1, << >>,
                    <<params.phase, params.k \div idivf, params.periodicity>>)))
    ELSE ProperEntries(h, indices, i + 1, lines)

\* lines 423-451: one function-code-3 line per matching slot-map entry
RECURSIVE RBEntries(_, _, _, _)
RBEntries(h, indices, i, lines) ==
    IF i > Len(h.slot_map) THEN lines
    ELSE IF h.slot_map[i].atom_indices = indices
    THEN LET params == Parameters("RBTorsions", h, h.slot_map[i].pot)
         IN RBEntries(h, indices, i + 1,
                Append(lines, Line("dihedrals", "data", Plus1(indices), 3, << >>,
                    <<params.C0, params.C1, params.C2, params.C3, params.C4,
                      params.C5>>)))
    ELSE RBEntries(h, indices, i + 1, lines)

\* Variant: an improper without idivf divides by 1, as a proper does.
RECURSIVE ImproperEntriesDefault(_, _, _, _)
ImproperEntriesDefault(h, indices, i, lines) ==
    IF i > Len(h.slot_map) THEN Result(lines, "none")
    ELSE IF indices = h.slot_map[i].atom_indices
    THEN LET params == Parameters("ImproperTorsions", h, h.slot_map[i].pot)
             idivf == IF "idivf" \in DOMAIN params THEN params.idivf ELSE 1
         IN ImproperEntriesDefault(h, indices, i + 1,
                Append(lines, Line("dihedrals", "data", Plus1(indices), 4, << >>,
                    <<params.phase, params.k \div idivf, params.periodicity>>)))
    ELSE ImproperEntriesDefault(h, indices, i + 1, lines)

\* lines 456-477: params["idivf"] has no default
RECURSIVE ImproperEntries(_, _, _, _)
ImproperEntries(h, indices, i, lines) ==
    IF i > Len(h.slot_map) THEN Result(lines, "none")
    ELSE IF indices = h.slot_map[i].atom_indices
    THEN LET params == Parameters("ImproperTorsions", h, h.slot_map[i].pot)
         IN IF "idivf" \notin DOMAIN params THEN Result(lines, "KeyError")
            ELSE ImproperEntries(h, indices, i + 1,
                    Append(lines, Line("dihedrals", "data", Plus1(indices), 4, << >>,
                        <<params.phase, params.k \div params.idivf,
                          params.periodicity>>)))
    ELSE ImproperEntries(h, indices, i + 1, lines)

\* Variant: the RBTorsions pass is an `elif` of the ProperTorsions pass.
ProperQuartetElif(hp, hrb, indices, lines) ==
    IF hp.present THEN ProperEntries(hp, indices, 1, lines)
    ELSE IF hrb.present THEN RBEntries(hrb, indices, 1, lines)
    ELSE lines

\* The lines of one proper quartet: the ProperTorsions pass, then the
\* RBTorsions pass (a handler that is absent is the falsy []).
ProperQuartet(hp, hrb, indices, lines) ==
    LET l1 == IF hp.present THEN ProperEntries(hp, indices, 1, lines) ELSE lines
    IN IF hrb.present THEN RBEntries(hrb, indices, 1, l1) ELSE l1

RECURSIVE ProperLoop(_, _, _, _, _)
ProperLoop(hp, hrb, propers, i, lines) ==
    IF i > Len(propers) THEN lines
    ELSE ProperLoop(hp, hrb, propers, i + 1,
                    ProperQuartet(hp, hrb, propers[i], lines))

RECURSIVE ImproperLoop(_, _, _, _)
ImproperLoop(hi, impropers, i, lines) ==
    IF i > Len(impropers) THEN Result(lines, "none")
    ELSE LET r == IF hi.present THEN ImproperEntries(hi, impropers[i], 1, lines)
                  ELSE Result(lines, "none")
         IN IF r.err # "none" THEN r
            ELSE ImproperLoop(hi, impropers, i + 1, r.lines)

WriteDihedralsOf(s, hp, hrb, hi) ==
    IF ~hp.present /\ ~hrb.present /\ ~hi.present THEN Result(<< >>, "none")
    ELSE ImproperLoop(hi, TopImpropers(s), 1,
            ProperLoop(hp, hrb, TopPropers(s), 1,
                       <<Header("dihedrals"), Comment("dihedrals")>>))

WriteSystemOf ==
    <<Header("system"), Comment("system"),
      Line("system", "data", << >>, 0, <<"System name">>, << >>),
      Header("molecules"), Comment("molecules"),
      Line("molecules", "data", << >>, 0, <<"MOL">>, <<1>>)>>

----------------------------------------------------------------------------
(* to_gro *)

AtomOf(s, idx) == [index |-> idx, residue |-> ResidueIndex(idx)]

NoAtom == [index |-> -1, residue |-> -1]

\* Variant: the index is wrapped before 1 is added.
SerialWrapFirst(index) == (index % SerialModulus) + 1

\* residue_idx and the atom serial of lines 49 and 58
Serial(index) == (index + 1) % SerialModulus

\* lines 47-63, the coordinate fields left out
GroAtomLine(a, atom_name) ==
    Line("gro_atom", "data", <<Serial(a.residue), Serial(a.index)>>, 0,
         <<atom_name>>, << >>)

GroAtomsOf(s, tm) ==
    [i \in 1..Len(s.atoms) |-> GroAtomLine(AtomOf(s, i - 1), tm[i - 1])]

NoBox == [none |-> TRUE, unit |-> "nanometer", m |-> << >>]

OffDiagonal == {<<i, j>> \in (1..3) \X (1..3) : i # j}

Boxes ==
    { [none |-> FALSE, unit |-> u,
       m |-> [i \in 1..3 |-> [j \in 1..3 |-> IF i = j THEN i + 2 ELSE o[<<i, j>>]]]] :
        u \in {"nanometer", "angstrom"},
        o \in { f \in [OffDiagonal -> {0, 1}] :
                  Cardinality({p \in OffDiagonal : f[p] # 0}) <= 2 } }

\* openff_sys.box.to(unit.nanometer).magnitude, in tenths of a nanometer
ToNanometer(b) ==
    [i \in 1..3 |-> [j \in 1..3 |->
        IF b.unit = "nanometer" THEN 10 * b.m[i][j] ELSE b.m[i][j]]]

\* Variant: only the entries above the diagonal are compared with 0.
IsRectangularUpper(m) ==
    \A i \in 1..3 : \A j \in 1..3 : i < j => m[i][j] = 0

\* (box == np.diag(np.diagonal(box))).all()
IsRectangular(m) ==
    \A i \in 1..3 : \A j \in 1..3 : m[i][j] = (IF i = j THEN m[i][i] ELSE 0)

\* lines 74-77: for i in range(3): for j in range(3): if i != j
RECURSIVE OffDiagonalValues(_, _, _)
OffDiagonalValues(m, i, j) ==
    IF i > 3 THEN << >>
    ELSE IF j > 3 THEN OffDiagonalValues(m, i + 1, 1)
    ELSE (IF i # j THEN <<m[i][j]>> ELSE << >>) \o OffDiagonalValues(m, i, j + 1)

BoxValues(m) ==
    IF IsRectangular(m) THEN <<m[1][1], m[2][2], m[3][3]>>
    ELSE <<m[1][1], m[2][2], m[3][3]>> \o OffDiagonalValues(m, 1, 1)

WriteBoxOf(b) ==
    IF b.none THEN Result(<< >>, "AttributeError")
    ELSE Result(<<Line("gro_box", "data", << >>, 0, << >>,
                       BoxValues(ToNanometer(b)))>>, "none")

----------------------------------------------------------------------------
(* The exports as state machines *)

Init ==
    /\ sys \in {s \in Systems : WellFormed(s)}
    /\ handlers = [n \in ValenceNames |-> Absent]
    /\ box = NoBox
    /\ pc = "idle"
    /\ stream = "unopened"
    /\ out = << >>
    /\ typemap = EmptyMap
    /\ atom = NoAtom
    /\ err = "none"

\* A writer wrote r.lines and returned, or raised r.err after writing them.
Emit(r, next) ==
    /\ out' = out \o r.lines
    /\ err' = r.err
    /\ pc' = IF r.err = "none" THEN next ELSE "raising"

\* lines 92-98: `path` is bound only for a str or a Path; open(path, "w")
\* truncates the file; the first write is the title comment.
ToTopOpen ==
    /\ pc = "idle"
    /\ \E is_path \in BOOLEAN :
          IF is_path
          THEN /\ stream' = "open"
               /\ out' = <<Comment("top")>>
               /\ pc' = "defaults"
               /\ err' = err
          ELSE /\ pc' = "raised"
               /\ err' = "UnboundLocalError"
               /\ UNCHANGED <<stream, out>>
    /\ UNCHANGED <<sys, handlers, box, typemap, atom>>

WriteTopDefaults ==
    /\ pc = "defaults"
    /\ Emit(WriteTopDefaultsOf(sys), "typemap")
    /\ UNCHANGED <<sys, handlers, box, stream, typemap, atom>>

BuildTypemap ==
    /\ pc = "typemap"
    /\ typemap' = BuildTypemapOf(sys)
    /\ pc' = "atomtypes"
    /\ UNCHANGED <<sys, handlers, box, stream, out, atom, err>>

WriteAtomtypes ==
    /\ pc = "atomtypes"
    /\ Emit(WriteAtomtypesOf(sys, typemap), "moleculetype")
    /\ UNCHANGED <<sys, handlers, box, stream, typemap, atom>>

WriteMoleculetype ==
    /\ pc = "moleculetype"
    /\ Emit(Result(WriteMoleculetypeOf, "none"), "atoms")
    /\ UNCHANGED <<sys, handlers, box, stream, typemap, atom>>

WriteAtoms ==
    /\ pc = "atoms"
    /\ Emit(Result(WriteAtomsOf(sys, typemap), "none"), "bonds")
    /\ UNCHANGED <<sys, handlers, box, stream, typemap, atom>>

WriteBonds ==
    /\ pc = "bonds"
    /\ \E h \in HandlerChoices("Bonds", sys) :
          /\ handlers' = [handlers EXCEPT !["Bonds"] = h]
          /\ Emit(WriteBondsOf(sys, h), "angles")
    /\ UNCHANGED <<sys, box, stream, typemap, atom>>

WriteAngles ==
    /\ pc = "angles"
    /\ \E h \in HandlerChoices("Angles", sys) :
          /\ handlers' = [handlers EXCEPT !["Angles"] = h]
          /\ Emit(WriteAnglesOf(sys, h), "dihedrals")
    /\ UNCHANGED <<sys, box, stream, typemap, atom>>

WriteDihedrals ==
    /\ pc = "dihedrals"
    /\ \E hp \in HandlerChoices("ProperTorsions", sys),
          hrb \in HandlerChoices("RBTorsions", sys),
          hi \in HandlerChoices("ImproperTorsions", sys) :
          /\ handlers' = [handlers EXCEPT !["ProperTorsions"] = hp,
                                          !["RBTorsions"] = hrb,
                                          !["ImproperTorsions"] = hi]
          /\ Emit(WriteDihedralsOf(sys, hp, hrb, hi), "system")
    /\ UNCHANGED <<sys, box, stream, typemap, atom>>

WriteSystem ==
    /\ pc = "system"
    /\ Emit(Result(WriteSystemOf, "none"), "exit")
    /\ UNCHANGED <<sys, handlers, box, stream, typemap, atom>>

\* Variant: the stream is closed only when the block ends normally.
CloseOnReturnOnly(st, e) == IF e = "none" THEN "closed" ELSE st

\* The end of the `with open(...)` block of to_top and of to_gro.
CloseOnExit(st, e) == "closed"

ExitWith ==
    /\ pc \in {"exit", "raising"}
    /\ stream' = CloseOnExit(stream, err)
    /\ pc' = IF err = "none" THEN "returned" ELSE "raised"
    /\ UNCHANGED <<sys, handlers, box, out, typemap, atom, err>>

\* lines 31-44
ToGroOpen ==
    /\ pc = "idle"
    /\ \E is_path \in BOOLEAN :
          IF is_path
          THEN /\ stream' = "open"
               /\ out' = <<Line("gro_title", "data", << >>, 0, << >>, << >>),
                           Line("gro_count", "data", << >>, 0, << >>,
                                <<Len(sys.atoms)>>)>>
               /\ pc' = "gro_typemap"
               /\ err' = err
          ELSE /\ pc' = "raised"
               /\ err' = "UnboundLocalError"
               /\ UNCHANGED <<stream, out>>
    /\ UNCHANGED <<sys, handlers, box, typemap, atom>>

GroBuildTypemap ==
    /\ pc = "gro_typemap"
    /\ typemap' = BuildTypemapOf(sys)
    /\ pc' = "gro_atoms"
    /\ UNCHANGED <<sys, handlers, box, stream, out, atom, err>>

GroWriteAtoms ==
    /\ pc = "gro_atoms"
    /\ out' = out \o GroAtomsOf(sys, typemap)
    /\ atom' = AtomOf(sys, Len(sys.atoms) - 1)
    /\ pc' = "gro_box"
    /\ UNCHANGED <<sys, handlers, box, stream, typemap, err>>

GroWriteBox ==
    /\ pc = "gro_box"
    /\ \E b \in Boxes \cup {NoBox} :
          /\ box' = b
          /\ Emit(WriteBoxOf(b), "exit")
    /\ UNCHANGED <<sys, handlers, stream, typemap, atom>>

Next ==
    \/ ToTopOpen
    \/ WriteTopDefaults
    \/ BuildTypemap
    \/ WriteAtomtypes
    \/ WriteMoleculetype
    \/ WriteAtoms
    \/ WriteBonds
    \/ WriteAngles
    \/ WriteDihedrals
    \/ WriteSystem
    \/ ExitWith
    \/ ToGroOpen
    \/ GroBuildTypemap
    \/ GroWriteAtoms
    \/ GroWriteBox

Spec == Init /\ [][Next]_vars

----------------------------------------------------------------------------
(* The atom line of to_gro applied to one atom of a large topology *)

InitSerial ==
    /\ sys = [vdw |-> TRUE, buck |-> FALSE, elec |-> TRUE, atoms |-> <<"C">>,
              shape |-> "chain"]
    /\ handlers = [n \in ValenceNames |-> Absent]
    /\ box = NoBox
    /\ pc = "gro_atoms"
    /\ stream = "open"
    /\ out = << >>
    /\ typemap = BuildTypemapOf(sys)
    /\ atom = NoAtom
    /\ err = "none"

GroWriteAtom ==
    /\ pc = "gro_atoms"
    /\ \E idx \in 0..MaxIndex : \E res \in {0, idx} :
          /\ atom' = [index |-> idx, residue |-> res]
          /\ out' = <<GroAtomLine([index |-> idx, residue |-> res], typemap[0])>>
    /\ pc' = "gro_atom_done"
    /\ UNCHANGED <<sys, handlers, box, stream, typemap, err>>

NextSerial == GroWriteAtom

SpecSerial == InitSerial /\ [][NextSerial]_vars

----------------------------------------------------------------------------
(* Properties *)

TopExport == out # << >> /\ out[1].sec = "top"

GroExport == out # << >> /\ out[1].sec = "gro_title"

Returned == pc \in {"returned", "raised"}

HasHeader(sec) == \E i \in DOMAIN out : out[i].kind = "header" /\ out[i].sec = sec

\* positions of the data lines of a section with given function code and
\* 1-based atom indices
DataAt(sec, func, idx) ==
    { i \in DOMAIN out : /\ out[i].idx = idx /\ out[i].func = func
                         /\ out[i].sec = sec /\ out[i].kind = "data" }

Matching(slot_map, indices) ==
    { i \in DOMAIN slot_map : slot_map[i].atom_indices = indices }

SectionOrder ==
    <<"defaults", "atomtypes", "moleculetype", "atoms", "pairs", "bonds",
      "angles", "dihedrals", "system", "molecules">>

\* the place of a section in SectionOrder; 0 for the title comment
SecRank ==
    [top |-> 0, defaults |-> 1, atomtypes |-> 2, moleculetype |-> 3, atoms |-> 4,
     pairs |-> 5, bonds |-> 6, angles |-> 7, dihedrals |-> 8, system |-> 9,
     molecules |-> 10]

HeaderAt == { i \in DOMAIN out : out[i].kind = "header" }

\* C1: in the topology file every line that is not a section header
\* continues the section of the line before it, and every section header
\* comes later in the order defaults, atomtypes, moleculetype, atoms, pairs,
\* bonds, angles, dihedrals, system, molecules than the section before it
\* (so no section is written twice or after a later one); a successful
\* to_top has written defaults, atomtypes, moleculetype, atoms, pairs,
\* system and molecules.
C1_SectionOrder ==
    TopExport =>
        /\ \A i \in 2..Len(out) :
              IF out[i].kind = "header"
              THEN SecRank[out[i - 1].sec] < SecRank[out[i].sec]
              ELSE out[i - 1].sec = out[i].sec
        /\ pc = "returned" =>
              \A sec \in {"defaults", "atomtypes", "moleculetype", "atoms", "pairs",
                          "system", "molecules"} : HasHeader(sec)

C1_Witness ==
    /\ pc = "returned"
    /\ \A i \in DOMAIN SectionOrder : HasHeader(SectionOrder[i])

DefaultsLines ==
    { i \in DOMAIN out : out[i].sec = "defaults" /\ out[i].kind = "data" }

\* C2: once _write_top_defaults has run, a handler set with neither or both
\* of "vdW" and "Buckingham-6" has made it fail with UnsupportedExportError
\* without a defaults line; a defaults line is there only when exactly one
\* of the two is present, with nbfunc 1 and gen-pairs "yes" for vdW and
\* nbfunc 2 and gen-pairs "no" for Buckingham-6.
C2_DefaultsRejectsNeitherOrBoth ==
    (TopExport /\ pc # "defaults") =>
        /\ (sys.vdw = sys.buck) =>
              /\ DefaultsLines = {}
              /\ err = "UnsupportedExportError"
              /\ ~HasHeader("atomtypes")
        /\ \A i \in DefaultsLines :
              /\ sys.vdw # sys.buck
              /\ sys.vdw => (out[i].func = 1 /\ out[i].label = <<"yes">>)
              /\ sys.buck => (out[i].func = 2 /\ out[i].label = <<"no">>)

\* C3: once the bonds (angles) writer has run with its handler present, a
\* topology bond (angle) whose atom indices no slot-map entry carries has
\* made the export fail, and no line has been written for it.
C3_UnmatchedFails ==
    /\ (HasHeader("bonds") /\ handlers["Bonds"].present) =>
          \A b \in DOMAIN TopBonds(sys) :
              LET indices == SortPair(TopBonds(sys)[b]) IN
              Matching(handlers["Bonds"].slot_map, indices) = {} =>
                  /\ err # "none"
                  /\ DataAt("bonds", 1, Plus1(indices)) = {}
    /\ (HasHeader("angles") /\ handlers["Angles"].present) =>
          \A a \in DOMAIN TopAngles(sys) :
              LET indices == TopAngles(sys)[a] IN
              Matching(handlers["Angles"].slot_map, indices) = {} =>
                  /\ err # "none"
                  /\ DataAt("angles", 1, Plus1(indices)) = {}

\* C4: in to_top and to_gro a stream that was opened is closed when the
\* export has returned or raised; an open stream always has a next step;
\* nothing is written to a closed stream, which stays closed; and the
\* exception raised by a writer is the one that reaches the caller.
C4_StreamClosed ==
    /\ [](Returned /\ stream # "unopened" => stream = "closed")
    /\ [](stream = "open" => ENABLED Next)
    /\ [][stream = "closed" => (out' = out /\ stream' = "closed")]_vars
    /\ [][err # "none" => err' = err]_vars
    /\ [](pc = "raised" => err # "none")

C4_Witness ==
    /\ pc = "raised"
    /\ stream = "closed"
    /\ err = "KeyError"
    /\ HasHeader("dihedrals")

\* C5: after to_top has raised, the file holds none of the sections
\* written before the failure.
C5_NoPartialFile ==
    (TopExport /\ pc = "raised") => HeaderAt = {}

\* C6: once the dihedrals section is written, a proper quartet whose atom
\* indices are carried by entries of both the ProperTorsions and the
\* RBTorsions slot map has function-code-1 lines and function-code-3 lines
\* with its four 1-based indices, every code-1 line before every code-3
\* line, exactly one of a kind when exactly one entry of that handler
\* matches (two separate lines); a quartet no entry of a handler matches
\* has no line of that handler's function code.
C6_ProperAndRB ==
    HasHeader("dihedrals") =>
        \A q \in DOMAIN TopPropers(sys) :
            LET indices == TopPropers(sys)[q]
                np == Cardinality(Matching(handlers["ProperTorsions"].slot_map, indices))
                nrb == Cardinality(Matching(handlers["RBTorsions"].slot_map, indices))
                l1 == DataAt("dihedrals", 1, Plus1(indices))
                l3 == DataAt("dihedrals", 3, Plus1(indices))
            IN  /\ (np > 0 /\ nrb > 0) =>
                      /\ l1 # {} /\ l3 # {}
                      /\ \A i \in l1 : \A j \in l3 : i < j
                /\ np = 0 => l1 = {}
                /\ nrb = 0 => l3 = {}
                /\ np = 1 => Cardinality(l1) = 1
                /\ nrb = 1 => Cardinality(l3) = 1

C6_Witness ==
    /\ HasHeader("dihedrals")
    /\ \E q \in DOMAIN TopPropers(sys) :
          LET indices == TopPropers(sys)[q] IN
          /\ Cardinality(Matching(handlers["ProperTorsions"].slot_map, indices)) = 1
          /\ Cardinality(Matching(handlers["RBTorsions"].slot_map, indices)) = 1
          /\ Cardinality(DataAt("dihedrals", 1, Plus1(indices))) = 1
          /\ Cardinality(DataAt("dihedrals", 3, Plus1(indices))) = 1

\* the force-constant field (k / idivf) of a code-1 or code-4 dihedral line
ForceField(i) == out[i].vals[2]

\* C7: once the dihedrals section is written, every ProperTorsions entry
\* matching a proper quartet has a code-1 line whose force constant is k
\* divided by the parameter set's idivf, and k itself when idivf is absent;
\* every ImproperTorsions entry matching an improper quartet has, when idivf
\* is present, a code-4 line with k divided by it; and when an improper
\* quartet resolves to a parameter set without idivf the export has failed
\* with the missing-parameter error (the KeyError of params["idivf"]) and
\* no code-4 line is written.
C7_Idivf ==
    HasHeader("dihedrals") =>
        /\ \A q \in DOMAIN TopPropers(sys) :
              LET hp == handlers["ProperTorsions"]
                  indices == TopPropers(sys)[q]
              IN \A e \in Matching(hp.slot_map, indices) :
                    LET k == Parameters("ProperTorsions", hp, hp.slot_map[e].pot).k
                    IN \E i \in DataAt("dihedrals", 1, Plus1(indices)) :
                          /\ out[i].vals[3] = hp.slot_map[e].mult
                          /\ hp.idivf = 0 => ForceField(i) = k
                          /\ hp.idivf # 0 => ForceField(i) * hp.idivf = k
        /\ LET hi == handlers["ImproperTorsions"]
               resolved == { q \in DOMAIN TopImpropers(sys) :
                               Matching(hi.slot_map, TopImpropers(sys)[q]) # {} }
           IN  IF hi.idivf = 0
               THEN resolved # {} =>
                       /\ err = "KeyError"
                       /\ pc \in {"raising", "raised"}
                       /\ \A i \in DOMAIN out : out[i].func # 4
               ELSE \A q \in resolved :
                       \A e \in Matching(hi.slot_map, TopImpropers(sys)[q]) :
                          LET k == Parameters("ImproperTorsions", hi, hi.slot_map[e].pot).k
                          IN \E i \in DataAt("dihedrals", 4, Plus1(TopImpropers(sys)[q])) :
                                /\ out[i].vals[3] = hi.slot_map[e].mult
                                /\ ForceField(i) * hi.idivf = k

C7_Witness ==
    /\ HasHeader("dihedrals")
    /\ handlers["ImproperTorsions"].present
    /\ handlers["ImproperTorsions"].idivf = 0
    /\ Matching(handlers["ImproperTorsions"].slot_map, TopImpropers(sys)[1]) # {}
    /\ err = "KeyError"

C7_WitnessProper ==
    /\ HasHeader("dihedrals")
    /\ handlers["ProperTorsions"].present
    /\ handlers["ProperTorsions"].idivf = 0
    /\ \E i \in DOMAIN out : out[i].func = 1 /\ out[i].sec = "dihedrals"

\* the label of the atom of 0-based index idx: its element symbol and the
\* number of atoms of that element among the atoms of index 0..idx
ExpectedLabel(idx) ==
    <<sys.atoms[idx + 1],
      Cardinality({j \in 0..idx : sys.atoms[j + 1] = sys.atoms[idx + 1]})>>

HeaderOf(sec) == CHOOSE i \in DOMAIN out : out[i].kind = "header" /\ out[i].sec = sec

\* The section's header and comment are followed by exactly n data lines
\* of the section, the i-th with the given labels.
SectionLabels(sec, n, labels) ==
    LET h == HeaderOf(sec) IN
    /\ Len(out) >= h + 1 + n
    /\ \A i \in 1..n :
          LET l == out[h + 1 + i] IN
          l.sec = sec /\ l.kind = "data" /\ l.label = labels[i]
    /\ Len(out) > h + 1 + n => out[h + 2 + n].sec # sec

\* C8: the type map built by _build_typemap gives every atom the label
\* <element symbol><k>, k the 1-based count of atoms of that element up to
\* and including it; the atomtypes section and the atoms section of one
\* to_top (type and atom name), and the atom lines of to_gro, carry these
\* labels, one line per atom in index order.
C8_Typemap ==
    LET n == Len(sys.atoms)
        expected == [i \in 1..n |-> ExpectedLabel(i - 1)]
        One == [i \in 1..n |-> <<expected[i]>>]
        Two == [i \in 1..n |-> <<expected[i], expected[i]>>]
    IN
    /\ pc \notin {"idle", "defaults", "typemap", "gro_typemap"} /\ typemap # EmptyMap =>
          /\ DOMAIN typemap = 0..(n - 1)
          /\ \A idx \in DOMAIN typemap : typemap[idx] = expected[idx + 1]
    /\ HasHeader("atomtypes") => SectionLabels("atomtypes", n, One)
    /\ HasHeader("atoms") =>
          LET h == HeaderOf("atoms") IN
          /\ SectionLabels("atoms", n, Two)
          /\ \A i \in 1..n : out[h + 1 + i].idx[1] = i
    /\ (GroExport /\ pc \in {"gro_box", "exit", "raising", "returned", "raised"}) =>
          /\ Len(out) >= 2 + n
          /\ \A i \in 1..n :
                out[2 + i].sec = "gro_atom" /\ out[2 + i].label = One[i]
          /\ Len(out) > 2 + n => out[3 + n].sec # "gro_atom"

C8_Witness ==
    /\ HasHeader("atoms")
    /\ Len(sys.atoms) >= 3
    /\ typemap[0] = <<"C", 1>>
    /\ typemap[1] = <<"H", 1>>
    /\ typemap[2] = <<"C", 2>>

\* C9: an atom line of the coordinate file carries the residue serial
\* (residue index + 1) mod 100000 and the atom serial (atom index + 1) mod
\* 100000: index + 1 for an index below 99999, 0 for index 99999 and 1 for
\* index 100000.
C9_SerialWraps ==
    pc = "gro_atom_done" =>
        LET WrapOk(index, serial) ==
                /\ serial \in 0..99999
                /\ (index + 1 - serial) % 100000 = 0
                /\ index < 99999 => serial = index + 1
                /\ index = 99999 => serial = 0
                /\ index = 100000 => serial = 1
        IN /\ WrapOk(atom.residue, out[1].idx[1])
           /\ WrapOk(atom.index, out[1].idx[2])

C9_Witness ==
    /\ pc = "gro_atom_done"
    /\ atom.index = 99999
    /\ atom.residue = 99999
    /\ out[1].idx = <<0, 0>>

BoxLine == CHOOSE i \in DOMAIN out : out[i].sec = "gro_box"

\* C10: the box line of the coordinate file has three values, the diagonal
\* of the box in nanometers, if and only if all six off-diagonal entries
\* are zero after the conversion; otherwise it has nine: the diagonal, then
\* [0][1], [0][2], [1][0], [1][2], [2][0], [2][1].
C10_BoxLine ==
    (\E i \in DOMAIN out : out[i].sec = "gro_box") =>
        LET m == ToNanometer(box)
            v == out[BoxLine].vals
            zero == /\ m[1][2] = 0 /\ m[1][3] = 0 /\ m[2][1] = 0
                    /\ m[2][3] = 0 /\ m[3][1] = 0 /\ m[3][2] = 0
        IN  /\ (Len(v) = 3) <=> zero
            /\ Len(v) \in {3, 9}
            /\ v[1] = m[1][1] /\ v[2] = m[2][2] /\ v[3] = m[3][3]
            /\ Len(v) = 9 =>
                  /\ v[4] = m[1][2] /\ v[5] = m[1][3] /\ v[6] = m[2][1]
                  /\ v[7] = m[2][3] /\ v[8] = m[3][1] /\ v[9] = m[3][2]

C10_Witness ==
    /\ \E i \in DOMAIN out : out[i].sec = "gro_box"
    /\ box.unit = "angstrom"
    /\ box.m[1][2] = 0 /\ box.m[1][3] = 0 /\ box.m[2][1] = 1
    /\ Len(out[BoxLine].vals) = 9


\* the section's writer has run and has not raised
SectionDone(sec) == HasHeader(sec) /\ (err = "none" \/ out[Len(out)].sec # sec)

LastOf(S) == CHOOSE i \in S : \A j \in S : j <= i

\* some two entries of the handler's slot map carry the same atom indices
HasDuplicate(h) ==
    \E i \in DOMAIN h.slot_map : \E j \in DOMAIN h.slot_map :
        i < j /\ h.slot_map[i].atom_indices = h.slot_map[j].atom_indices

\* line i of the bonds or angles section carries the parameters of pot
ValenceCarries(name, h, pot, i) ==
    LET params == Parameters(name, h, pot) IN
    IF name = "Bonds"
    THEN out[i].vals = <<params.length, params.k>>
    ELSE out[i].vals = <<params.angle, params.k>>

\* line i of the dihedrals section carries the parameters of pot
TorsionCarries(name, h, pot, i) ==
    LET params == Parameters(name, h, pot) IN
    IF name = "RBTorsions"
    THEN out[i].vals = <<params.C0, params.C1, params.C2, params.C3, params.C4,
                         params.C5>>
    ELSE /\ out[i].vals[1] = params.phase
         /\ out[i].vals[3] = params.periodicity
         /\ out[i].vals[2] * (IF "idivf" \in DOMAIN params THEN params.idivf ELSE 1)
               = params.k

\* the interaction has exactly one line, with the parameters of the last
\* of the slot-map entries that carry its atom indices
LastMatchLine(sec, name, h, indices) ==
    LET M == Matching(h.slot_map, indices)
        l == DataAt(sec, 1, Plus1(indices))
    IN Cardinality(M) > 1 =>
          /\ Cardinality(l) = 1
          /\ \A i \in l : ValenceCarries(name, h, h.slot_map[LastOf(M)].pot, i)

\* the quartet has exactly one line of the handler's function code, with
\* the parameters of the last matching entry
LastMatchTorsion(name, func, h, indices) ==
    LET M == Matching(h.slot_map, indices)
        l == DataAt("dihedrals", func, Plus1(indices))
    IN Cardinality(M) > 1 =>
          /\ Cardinality(l) = 1
          /\ \A i \in l : TorsionCarries(name, h, h.slot_map[LastOf(M)].pot, i)

\* the quartet has as many lines of the handler's function code as it has
\* matching entries, and the n-th of these lines carries the parameters of
\* the n-th matching entry
EachMatchTorsion(name, func, h, indices) ==
    LET M == Matching(h.slot_map, indices)
        l == DataAt("dihedrals", func, Plus1(indices))
    IN Cardinality(M) > 1 =>
          /\ Cardinality(l) = Cardinality(M)
          /\ \A e \in M : \A i \in l :
                Cardinality({e2 \in M : e2 < e}) = Cardinality({i2 \in l : i2 < i})
                    => TorsionCarries(name, h, h.slot_map[e].pot, i)

\* C11 as stated: once a valence section is written without its writer
\* raising, an interaction whose atom indices more than one slot-map entry
\* of a handler carries has exactly one line of that handler, with the
\* parameters of the last such entry: bonds, angles, proper quartets
\* (ProperTorsions and RBTorsions) and improper quartets alike.
C11_LastMatchOnly ==
    /\ SectionDone("bonds") =>
          \A b \in DOMAIN TopBonds(sys) :
              LastMatchLine("bonds", "Bonds", handlers["Bonds"],
                            SortPair(TopBonds(sys)[b]))
    /\ SectionDone("angles") =>
          \A a \in DOMAIN TopAngles(sys) :
              LastMatchLine("angles", "Angles", handlers["Angles"],
                            TopAngles(sys)[a])
    /\ SectionDone("dihedrals") =>
          /\ \A q \in DOMAIN TopPropers(sys) :
                /\ LastMatchTorsion("ProperTorsions", 1,
                                    handlers["ProperTorsions"], TopPropers(sys)[q])
                /\ LastMatchTorsion("RBTorsions", 3,
                                    handlers["RBTorsions"], TopPropers(sys)[q])
          /\ \A q \in DOMAIN TopImpropers(sys) :
                LastMatchTorsion("ImproperTorsions", 4,
                                 handlers["ImproperTorsions"], TopImpropers(sys)[q])

\* C11, amended: once a valence section is written without its writer
\* raising, a bond or an angle whose atom indices more than one slot-map
\* entry carries has exactly one line, with the parameters of the last such
\* entry; a proper or improper quartet whose atom indices more than one
\* entry of a torsion handler carries has one line of that handler's
\* function code for each such entry, with that entry's parameters, in
\* slot-map order.
C11_LastMatchOrEach ==
    /\ (HasDuplicate(handlers["Bonds"]) /\ SectionDone("bonds")) =>
          \A b \in DOMAIN TopBonds(sys) :
              LastMatchLine("bonds", "Bonds", handlers["Bonds"],
                            SortPair(TopBonds(sys)[b]))
    /\ (HasDuplicate(handlers["Angles"]) /\ SectionDone("angles")) =>
          \A a \in DOMAIN TopAngles(sys) :
              LastMatchLine("angles", "Angles", handlers["Angles"],
                            TopAngles(sys)[a])
    /\ (HasDuplicate(handlers["ProperTorsions"]) /\ SectionDone("dihedrals")) =>
          \A q \in DOMAIN TopPropers(sys) :
              EachMatchTorsion("ProperTorsions", 1,
                               handlers["ProperTorsions"], TopPropers(sys)[q])
    /\ (HasDuplicate(handlers["RBTorsions"]) /\ SectionDone("dihedrals")) =>
          \A q \in DOMAIN TopPropers(sys) :
              EachMatchTorsion("RBTorsions", 3,
                               handlers["RBTorsions"], TopPropers(sys)[q])
    /\ (HasDuplicate(handlers["ImproperTorsions"]) /\ SectionDone("dihedrals")) =>
          \A q \in DOMAIN TopImpropers(sys) :
              EachMatchTorsion("ImproperTorsions", 4,
                               handlers["ImproperTorsions"], TopImpropers(sys)[q])

C11_Witness ==
    /\ SectionDone("bonds")
    /\ SectionDone("dihedrals")
    /\ \E b \in DOMAIN TopBonds(sys) :
          LET indices == SortPair(TopBonds(sys)[b])
              h == handlers["Bonds"]
              M == Matching(h.slot_map, indices)
          IN /\ Cardinality(M) = 2
             /\ \E i \in DataAt("bonds", 1, Plus1(indices)) :
                   ValenceCarries("Bonds", h, h.slot_map[LastOf(M)].pot, i)
    /\ \E q \in DOMAIN TopPropers(sys) :
          LET indices == TopPropers(sys)[q]
              h == handlers["ProperTorsions"]
          IN /\ Cardinality(Matching(h.slot_map, indices)) = 2
             /\ Cardinality(DataAt("dihedrals", 1, Plus1(indices))) = 2

====
